---------------------------- MODULE Spec2Model ----------------------------
(***************************************************************************)
(* Model of the Keccak-f[1600] golden model of keccak-engine: the five     *)
(* step mappings (theta, rho, pi, chi, iota) and the round-constant        *)
(* generator, as written in src/python_testing and src/verif.              *)
(*                                                                         *)
(* Python integers are unbounded two's-complement numbers.  An integer is  *)
(* modelled exactly as a record [neg, d]: neg is the sign (the value of    *)
(* every bit above the finitely many interesting ones) and d is the finite *)
(* set of bit positions whose bit differs from the sign.  So 5 is          *)
(* [neg |-> FALSE, d |-> {0,2}] and ~5 = -6 is [neg |-> TRUE, d |-> {0,2}].*)
(* A Python list is a function on 0..n-1, so indices read as in the code.  *)
(***************************************************************************)
EXTENDS Integers, FiniteSets, Sequences, TLC

VARIABLES heap, state, given, round_index, ret, op, pc, ir, A, log, arg_value, arg_shift, calls

vars == <<heap, state, given, round_index, ret, op, pc, ir, A, log, arg_value, arg_shift, calls>>

(***************************************************************************)
(* Python integer arithmetic                                               *)
(***************************************************************************)
PyNat(bits) == [neg |-> FALSE, d |-> bits]

PyZero == PyNat({})

PyOne == PyNat({0})

\* bit i of the two's-complement integer a
PyBit(a, i) == (i \in a.d) # a.neg

PyInvert(a) == [neg |-> ~a.neg, d |-> a.d]

PyAnd(a, b) ==
    LET n == a.neg /\ b.neg
    IN  [neg |-> n,
         d   |-> {i \in a.d \cup b.d : (PyBit(a, i) /\ PyBit(b, i)) # n}]

PyOr(a, b) ==
    LET n == a.neg \/ b.neg
    IN  [neg |-> n,
         d   |-> {i \in a.d \cup b.d : (PyBit(a, i) \/ PyBit(b, i)) # n}]

PyXor(a, b) ==
    LET n == a.neg # b.neg
    IN  [neg |-> n,
         d   |-> {i \in a.d \cup b.d : (PyBit(a, i) # PyBit(b, i)) # n}]

PyShl(a, s) ==
    [neg |-> a.neg,
     d   |-> {i + s : i \in a.d} \cup (IF a.neg THEN 0 .. (s - 1) ELSE {})]

PyShr(a, s) ==
    [neg |-> a.neg, d |-> {i - s : i \in {k \in a.d : k >= s}}]

\* range(n); a Python list of length n is a function on it
PyRange(n) == 0 .. (n - 1)

(***************************************************************************)
(* iota_step.py: the round constants                                       *)
(***************************************************************************)
W == 64

MASK_64 == PyNat(PyRange(W))

\* faulty variant: the feedback bit is not XORed into position 6
LfsrStep_NoTap6(R) ==
    LET R_list == [i \in 0 .. 7 |-> (R \div (2 ^ (7 - i))) % 2]
        R9 == [i \in 0 .. 8 |-> IF i = 0 THEN 0 ELSE R_list[i - 1]]
        X9 == [i \in 0 .. 8 |->
                 IF i \in {0, 4, 5} THEN (R9[i] + R9[8]) % 2 ELSE R9[i]]
    IN  X9[0] * 128 + X9[1] * 64 + X9[2] * 32 + X9[3] * 16
          + X9[4] * 8 + X9[5] * 4 + X9[6] * 2 + X9[7]

\* one pass of the loop body of _calculate_rc on the 8-bit register R
LfsrStep(R) ==
    LET R_list == [i \in 0 .. 7 |-> (R \div (2 ^ (7 - i))) % 2]
        R9 == [i \in 0 .. 8 |-> IF i = 0 THEN 0 ELSE R_list[i - 1]]
        feedback_bit == R9[8]
        X9 == [i \in 0 .. 8 |->
                 IF i \in {0, 4, 5, 6} THEN (R9[i] + feedback_bit) % 2
                 ELSE R9[i]]
        R_trunc == [i \in 0 .. 7 |-> X9[i]]
    IN  R_trunc[0] * 128 + R_trunc[1] * 64 + R_trunc[2] * 32 + R_trunc[3] * 16
          + R_trunc[4] * 8 + R_trunc[5] * 4 + R_trunc[6] * 2 + R_trunc[7]

\* the loop body n times, from register R (a function, so that its arguments
\* are evaluated before the call, and split in halves: the evaluation is shallow)
LfsrLoop[R \in Nat, n \in Nat] ==
    IF n = 0 THEN R
    ELSE IF n = 1 THEN LfsrStep(R)
    ELSE LfsrLoop[LfsrLoop[R, n \div 2], n - (n \div 2)]

\* faulty variant: returns the least significant bit of the register
_calculate_rc_Lsb(t) ==
    IF t % 255 = 0 THEN 1 ELSE LfsrLoop[128, t % 255] % 2

_calculate_rc(t) ==
    IF t % 255 = 0 THEN 1
    ELSE LET t_mod_255 == t % 255
             R == LfsrLoop[128, t_mod_255]
         IN  (R \div 128) % 2

l == 6

RECURSIVE RcLoop(_, _, _)
RcLoop(i_r, j, RC) ==
    IF j > l THEN RC
    ELSE LET t == j + (7 * i_r)
             bit == _calculate_rc(t)
             pos == (2 ^ j) - 1
         IN  RcLoop(i_r, j + 1,
                    IF bit = 1 THEN PyOr(RC, PyShl(PyOne, pos)) ELSE RC)

\* no range check in the code: every integer i_r yields a value
_get_round_constant(i_r) == PyAnd(RcLoop(i_r, 0, PyZero), MASK_64)

NumRounds == 24

IdxSlack == 2

\* the round indices the callers pass: 0..23 and a few on either side
RoundIndices == (0 - IdxSlack) .. (NumRounds - 1 + IdxSlack)

\* _get_round_constant on every index the callers pass, evaluated once
RC_MEMO == [i \in RoundIndices |-> _get_round_constant(i)]

(***************************************************************************)
(* The heap: rows are mutable Python lists, a state is a list of rows.     *)
(***************************************************************************)
\* the 5x5 (or other) grid of lane values the list of rows st denotes
Grid(h, st) == [x \in DOMAIN st |-> h[st[x]]]

\* state[x][y] is a legal read for every index pair the loops touch
Readable(a, xs, ys) ==
    \A x \in xs : x \in DOMAIN a /\ \A y \in ys : y \in DOMAIN a[x]

\* fresh rows holding the lists of `a`, and the list of their addresses
Alloc(h, a) ==
    LET base == IF DOMAIN h = {} THEN 0
                ELSE 1 + CHOOSE m \in DOMAIN h : \A k \in DOMAIN h : k <= m
        refs == [x \in DOMAIN a |-> base + x]
    IN  [heap |-> [p \in DOMAIN h \cup {refs[x] : x \in DOMAIN a} |->
                     IF p \in DOMAIN h THEN h[p] ELSE a[p - base]],
         refs |-> refs]

NoRows == [x \in {} |-> 0]

Raise(h, kind) == [kind |-> kind, rows |-> NoRows, heap |-> h]

Return(h, refs) == [kind |-> "state", rows |-> refs, heap |-> h]

\* result = [[0]*5 for _ in range(5)], filled with `a`, returned
ReturnNew(h, a) == LET n == Alloc(h, a) IN Return(n.heap, n.refs)

(***************************************************************************)
(* theta_step.py                                                           *)
(***************************************************************************)
ThetaC(a) ==
    [x \in PyRange(5) |->
        PyXor(PyXor(PyXor(PyXor(a[x][0], a[x][1]), a[x][2]), a[x][3]), a[x][4])]

\* faulty variant: the rotation drops the bit shifted out instead of wrapping it
ThetaD_NoWrap(C) ==
    [x \in PyRange(5) |->
        PyXor(C[(x - 1) % 5], PyAnd(PyShl(C[(x + 1) % 5], 1), MASK_64))]

ThetaD(C) ==
    [x \in PyRange(5) |->
        LET xm1 == (x - 1) % 5
            xp1 == (x + 1) % 5
            rot == PyOr(PyAnd(PyShl(C[xp1], 1), MASK_64), PyShr(C[xp1], W - 1))
        IN  PyXor(C[xm1], rot)]

ThetaLanes(a) ==
    LET D == ThetaD(ThetaC(a))
    IN  [x \in PyRange(5) |-> [y \in PyRange(5) |-> PyXor(a[x][y], D[x])]]

keccak_theta(h, st) ==
    LET a == Grid(h, st)
    IN  IF ~Readable(a, PyRange(5), PyRange(5)) THEN Raise(h, "IndexError")
        ELSE ReturnNew(h, ThetaLanes(a))

(***************************************************************************)
(* rho_step.py                                                             *)
(***************************************************************************)
\* faulty variant: the table indexed [y][x]
OFFSETS_Transposed ==
    [i \in PyRange(5) |-> [k \in PyRange(5) |->
        << << 0, 36,  3, 41, 18>>,
           << 1, 44, 10, 45,  2>>,
           <<62,  6, 43, 15, 61>>,
           <<28, 55, 25, 21, 56>>,
           <<27, 20, 39,  8, 14>> >>[k + 1][i + 1]]]

\* OFFSETS[x][y], the rows of the literal in the order of the source
OFFSETS ==
    [i \in PyRange(5) |-> [k \in PyRange(5) |->
        << << 0, 36,  3, 41, 18>>,
           << 1, 44, 10, 45,  2>>,
           <<62,  6, 43, 15, 61>>,
           <<28, 55, 25, 21, 56>>,
           <<27, 20, 39,  8, 14>> >>[i + 1][k + 1]]]

\* faulty variant: the left shift is not masked to 64 bits
rotl64_NoMask(value, shift) ==
    LET s == shift % W
    IN  IF s = 0 THEN PyAnd(value, MASK_64)
        ELSE PyOr(PyShl(value, s), PyShr(value, W - s))

rotl64(value, shift) ==
    LET s == shift % W
    IN  IF s = 0 THEN PyAnd(value, MASK_64)
        ELSE PyOr(PyAnd(PyShl(value, s), MASK_64), PyShr(value, W - s))

RhoLanes(a) ==
    [x \in PyRange(5) |-> [y \in PyRange(5) |-> rotl64(a[x][y], OFFSETS[x][y])]]

keccak_rho(h, st) ==
    LET a == Grid(h, st)
    IN  IF ~Readable(a, PyRange(5), PyRange(5)) THEN Raise(h, "IndexError")
        ELSE ReturnNew(h, RhoLanes(a))

(***************************************************************************)
(* pi_step.py                                                              *)
(***************************************************************************)
\* faulty variant: the coordinates of the destination are not swapped
PiDest_NoSwap(x, y) == <<x, (2 * x + 3 * y) % 5>>

\* the slot the loop body writes for source (x, y)
PiDest(x, y) == <<y, (2 * x + 3 * y) % 5>>

\* result starts as zeros; a slot keeps the last value the loops wrote to it
PiLanes(a) ==
    [i \in PyRange(5) |-> [k \in PyRange(5) |->
        LET writers == {s \in PyRange(5) \X PyRange(5) : PiDest(s[1], s[2]) = <<i, k>>}
        IN  IF writers = {} THEN PyZero
            ELSE LET last == CHOOSE s \in writers :
                                \A t \in writers : 5 * t[1] + t[2] <= 5 * s[1] + s[2]
                 IN  a[last[1]][last[2]]]]

keccak_pi(h, st) ==
    LET a == Grid(h, st)
    IN  IF ~Readable(a, PyRange(5), PyRange(5)) THEN Raise(h, "IndexError")
        ELSE ReturnNew(h, PiLanes(a))

(***************************************************************************)
(* chi_step.py                                                             *)
(***************************************************************************)
\* faulty variant: the complement is taken of b & c
ChiLane_NotOfAnd(a, b, c) == PyXor(a, PyInvert(PyAnd(b, c)))

ChiLane(a, b, c) == PyXor(a, PyAnd(PyInvert(b), c))

ChiLanes(s) ==
    [x \in PyRange(5) |-> [y \in PyRange(5) |->
        ChiLane(s[x][y], s[(x + 1) % 5][y], s[(x + 2) % 5][y])]]

keccak_chi(h, st) ==
    LET a == Grid(h, st)
    IN  IF ~Readable(a, PyRange(5), PyRange(5)) THEN Raise(h, "IndexError")
        ELSE ReturnNew(h, ChiLanes(a))

(***************************************************************************)
(* iota_step.py: keccak_iota                                               *)
(***************************************************************************)
\* A_prime[0][0] = (A_prime[0][0] ^ RC) & MASK_64 on a grid of values
IotaLanes(a, i_r) ==
    LET RC == RC_MEMO[i_r]
    IN  [a EXCEPT ![0][0] = PyAnd(PyXor(a[0][0], RC), MASK_64)]

\* faulty variant: the range check lets round index 24 through
keccak_iota_OffByOne(h, st, i_r) ==
    LET copy == Alloc(h, Grid(h, st))
        A_prime == copy.refs
        h1 == copy.heap
    IN  IF ~(0 <= i_r /\ i_r <= NumRounds) THEN Raise(h, "ValueError")
        ELSE IF ~Readable(Grid(h1, A_prime), {0}, {0}) THEN Raise(h, "IndexError")
        ELSE LET row0 == h1[A_prime[0]]
                 h2 == [h1 EXCEPT ![A_prime[0]] =
                          [row0 EXCEPT ![0] = PyAnd(PyXor(row0[0], RC_MEMO[i_r]), MASK_64)]]
             IN  Return(h2, A_prime)

\* faulty variant: A_prime = list(state), the rows are the caller's own
keccak_iota_Shallow(h, st, i_r) ==
    LET A_prime == st
    IN  IF ~(0 <= i_r /\ i_r < NumRounds) THEN Raise(h, "ValueError")
        ELSE IF ~Readable(Grid(h, A_prime), {0}, {0}) THEN Raise(h, "IndexError")
        ELSE LET row0 == h[A_prime[0]]
                 h2 == [h EXCEPT ![A_prime[0]] =
                          [row0 EXCEPT ![0] = PyAnd(PyXor(row0[0], RC_MEMO[i_r]), MASK_64)]]
             IN  Return(h2, A_prime)

\* faulty variant: the round constant is XORed into A_prime[1][0]
keccak_iota_WrongLane(h, st, i_r) ==
    LET copy == Alloc(h, Grid(h, st))
        A_prime == copy.refs
        h1 == copy.heap
    IN  IF ~(0 <= i_r /\ i_r < NumRounds) THEN Raise(h, "ValueError")
        ELSE IF ~Readable(Grid(h1, A_prime), {1}, {0}) THEN Raise(h, "IndexError")
        ELSE LET row1 == h1[A_prime[1]]
                 h2 == [h1 EXCEPT ![A_prime[1]] =
                          [row1 EXCEPT ![0] = PyAnd(PyXor(row1[0], RC_MEMO[i_r]), MASK_64)]]
             IN  Return(h2, A_prime)

keccak_iota(h, st, i_r) ==
    LET copy == Alloc(h, Grid(h, st))          \* [row[:] for row in state]
        A_prime == copy.refs
        h1 == copy.heap
    IN  IF ~(0 <= i_r /\ i_r < NumRounds) THEN Raise(h, "ValueError")
        ELSE IF ~Readable(Grid(h1, A_prime), {0}, {0}) THEN Raise(h, "IndexError")
        ELSE LET RC == RC_MEMO[i_r]
                 row0 == h1[A_prime[0]]
                 h2 == [h1 EXCEPT ![A_prime[0]] =
                          [row0 EXCEPT ![0] = PyAnd(PyXor(row0[0], RC), MASK_64)]]
             IN  Return(h2, A_prime)

(***************************************************************************)
(* Inputs: the initial states of the example tests of the step files, a    *)
(* few more lane patterns, and lists that are not 5x5.                     *)
(***************************************************************************)
ShapeSlack == 1

SeqBits == 6

Sizes == (5 - ShapeSlack) .. (5 + ShapeSlack)

BitsOf(n) == {i \in PyRange(SeqBits) : (n \div (2 ^ i)) % 2 = 1}

Patterns == 2

\* <<name, p>>: the fills of the example tests, and "mixed" patterns p
Fills == {<<n, 0>> : n \in {"zero", "bit10", "bit00", "ones", "seq", "aaaa", "ffrow"}}
             \cup {<<"mixed", p>> : p \in 0 .. Patterns}

\* the fills given to lists of every size; the others fill 5x5 states only
AnySizeFills == {<<"seq", 0>>}

Lane(k, x, y) ==
    CASE k[1] = "zero"  -> PyZero
      [] k[1] = "bit10" -> IF x = 1 /\ y = 0 THEN PyOne ELSE PyZero
      [] k[1] = "bit00" -> IF x = 0 /\ y = 0 THEN PyOne ELSE PyZero
      [] k[1] = "ones"  -> PyOne
      [] k[1] = "seq"   -> PyNat(BitsOf(5 * x + y))
      [] k[1] = "aaaa"  -> IF x = 0 /\ y = 0
                          THEN PyNat({i \in PyRange(W) : i % 2 = 1}) ELSE PyZero
      [] k[1] = "ffrow" -> IF y = 2 THEN MASK_64
                        ELSE PyNat({i \in PyRange(W) : (i + x) % (y + 2) = 0})
      [] OTHER       -> PyNat({i \in PyRange(W) :
                                 ((i + 1) * (5 * x + y + 3 + k[2])) % 7 \in {0, 1, 2}})

NoRet == [kind |-> "none", rows |-> NoRows, int |-> PyZero]

Init ==
    \E k \in Fills, nr \in Sizes, nc \in Sizes :
        /\ (nr = 5 /\ nc = 5) \/ k \in AnySizeFills
        /\ heap = [p \in PyRange(nr) |-> [y \in PyRange(nc) |-> Lane(k, p, y)]]
        /\ state = [x \in PyRange(nr) |-> x]
        /\ given = [x \in PyRange(nr) |-> [y \in PyRange(nc) |-> Lane(k, x, y)]]
        /\ round_index = 0
        /\ ret = NoRet
        /\ op = "init"
        /\ pc = "idle"
        /\ ir = 0
        /\ A = NoRows
        /\ log = << >>
        /\ arg_value = PyZero
        /\ arg_shift = 0
        /\ calls = 0

(***************************************************************************)
(* The callers: each example test binds the value a step returns to a      *)
(* name; the value bound before becomes garbage.                           *)
(***************************************************************************)
Live(h, st) == [p \in {st[x] : x \in DOMAIN st} |-> h[p]]

\* the calls made so far on the state the caller holds, counted up to MaxCalls
MaxCalls == 3

Tick == IF calls < MaxCalls THEN calls + 1 ELSE calls

Bind(r, name) ==
    /\ heap' = r.heap
    /\ ret' = [kind |-> r.kind, rows |-> r.rows, int |-> PyZero]
    /\ op' = name

CallTheta ==
    /\ pc = "idle"
    /\ Bind(keccak_theta(Live(heap, state), state), "theta")
    /\ round_index' = 0
    /\ calls' = Tick
    /\ UNCHANGED <<arg_value, arg_shift, state, given, pc, ir, A, log>>

CallRho ==
    /\ pc = "idle"
    /\ Bind(keccak_rho(Live(heap, state), state), "rho")
    /\ round_index' = 0
    /\ calls' = Tick
    /\ UNCHANGED <<arg_value, arg_shift, state, given, pc, ir, A, log>>

CallPi ==
    /\ pc = "idle"
    /\ Bind(keccak_pi(Live(heap, state), state), "pi")
    /\ round_index' = 0
    /\ calls' = Tick
    /\ UNCHANGED <<arg_value, arg_shift, state, given, pc, ir, A, log>>

CallChi ==
    /\ pc = "idle"
    /\ Bind(keccak_chi(Live(heap, state), state), "chi")
    /\ round_index' = 0
    /\ calls' = Tick
    /\ UNCHANGED <<arg_value, arg_shift, state, given, pc, ir, A, log>>

CallIota ==
    /\ pc = "idle"
    /\ \E i \in RoundIndices :
          /\ round_index' = i
          /\ Bind(keccak_iota(Live(heap, state), state, i), "iota")
    /\ calls' = Tick
    /\ UNCHANGED <<arg_value, arg_shift, state, given, pc, ir, A, log>>

\* rc_val = _get_round_constant(round_idx)
CallRoundConstant ==
    /\ pc = "idle"
    /\ \E i \in RoundIndices :
          /\ round_index' = i
          /\ ret' = [kind |-> "int", rows |-> NoRows, int |-> RC_MEMO[i]]
    /\ heap' = Live(heap, state)
    /\ op' = "rc"
    /\ calls' = Tick
    /\ UNCHANGED <<arg_value, arg_shift, state, given, pc, ir, A, log>>

(***************************************************************************)
(* permute: 24 rounds of theta, rho, pi, chi, iota on a 25-lane state.     *)
(***************************************************************************)
IsState(a) ==
    /\ DOMAIN a = PyRange(5)
    /\ \A x \in DOMAIN a : DOMAIN a[x] = PyRange(5)

PermuteStart ==
    /\ pc = "idle"
    /\ op = "init"
    /\ IF IsState(Grid(heap, state))
         THEN /\ A' = Grid(heap, state)
              /\ pc' = "theta"
         ELSE /\ A' = A
              /\ pc' = "InvalidStateShape"
    /\ ir' = 0
    /\ op' = "permute"
    /\ UNCHANGED <<arg_value, arg_shift, calls, heap, state, given, round_index, ret, log>>

PermTheta ==
    /\ pc = "theta"
    /\ A' = ThetaLanes(A)
    /\ log' = Append(log, <<"theta", ir>>)
    /\ pc' = "rho"
    /\ UNCHANGED <<arg_value, arg_shift, calls, heap, state, given, round_index, ret, op, ir>>

PermRho ==
    /\ pc = "rho"
    /\ A' = RhoLanes(A)
    /\ log' = Append(log, <<"rho", ir>>)
    /\ pc' = "pi"
    /\ UNCHANGED <<arg_value, arg_shift, calls, heap, state, given, round_index, ret, op, ir>>

PermPi ==
    /\ pc = "pi"
    /\ A' = PiLanes(A)
    /\ log' = Append(log, <<"pi", ir>>)
    /\ pc' = "chi"
    /\ UNCHANGED <<arg_value, arg_shift, calls, heap, state, given, round_index, ret, op, ir>>

PermChi ==
    /\ pc = "chi"
    /\ A' = ChiLanes(A)
    /\ log' = Append(log, <<"chi", ir>>)
    /\ pc' = "iota"
    /\ UNCHANGED <<arg_value, arg_shift, calls, heap, state, given, round_index, ret, op, ir>>

\* faulty variant: the round loop stops one round early
PermIota_EndsEarly ==
    /\ pc = "iota"
    /\ A' = IotaLanes(A, ir)
    /\ log' = Append(log, <<"iota", ir>>)
    /\ ir' = ir + 1
    /\ pc' = IF ir + 2 < NumRounds THEN "theta" ELSE "done"
    /\ UNCHANGED <<arg_value, arg_shift, calls, heap, state, given, round_index, ret, op>>

PermIota ==
    /\ pc = "iota"
    /\ A' = IotaLanes(A, ir)
    /\ log' = Append(log, <<"iota", ir>>)
    /\ ir' = ir + 1
    /\ pc' = IF ir + 1 < NumRounds THEN "theta" ELSE "done"
    /\ UNCHANGED <<arg_value, arg_shift, calls, heap, state, given, round_index, ret, op>>

Next ==
    \/ CallTheta
    \/ CallRho
    \/ CallPi
    \/ CallChi
    \/ CallIota
    \/ CallRoundConstant
    \/ PermuteStart
    \/ PermTheta
    \/ PermRho
    \/ PermPi
    \/ PermChi
    \/ PermIota

Spec == Init /\ [][Next]_vars

(***************************************************************************)
(* rotl64 on its own: 64-bit values and shifts beyond the table's 0..63.   *)
(***************************************************************************)
MaxShift == 130

RotlValues ==
    {PyZero, PyOne, MASK_64, PyNat({W - 1}), PyNat({0, W - 1}),
     Lane(<<"aaaa", 0>>, 0, 0), Lane(<<"seq", 0>>, 4, 4), Lane(<<"ffrow", 0>>, 1, 1)}
        \cup {Lane(<<"mixed", p>>, 0, 0) : p \in 0 .. Patterns}

InitRotl ==
    /\ arg_value \in RotlValues
    /\ arg_shift = 0
    /\ heap = NoRows
    /\ state = NoRows
    /\ given = NoRows
    /\ round_index = 0
    /\ ret = NoRet
    /\ op = "init"
    /\ pc = "idle"
    /\ ir = 0
    /\ A = NoRows
    /\ log = << >>
    /\ calls = 0

\* rotl64(value, shift) called on its own
CallRotl64 ==
    /\ \E s \in 0 .. MaxShift :
          /\ arg_shift' = s
          /\ ret' = [kind |-> "int", rows |-> NoRows, int |-> rotl64(arg_value, s)]
    /\ op' = "rotl64"
    /\ UNCHANGED <<arg_value, calls, heap, state, given, round_index, pc, ir, A, log>>

NextRotl == CallRotl64

SpecRotl == InitRotl /\ [][NextRotl]_vars

(***************************************************************************)
(* Properties.  Lanes of the statements are written as on paper: a 64-bit  *)
(* word is the set of its one bits, or sixteen hexadecimal digits.         *)
(***************************************************************************)
HexDigit(c) ==
    CASE c = "0" -> 0 [] c = "1" -> 1 [] c = "2" -> 2 [] c = "3" -> 3
      [] c = "4" -> 4 [] c = "5" -> 5 [] c = "6" -> 6 [] c = "7" -> 7
      [] c = "8" -> 8 [] c = "9" -> 9 [] c = "A" -> 10 [] c = "B" -> 11
      [] c = "C" -> 12 [] c = "D" -> 13 [] c = "E" -> 14 [] c = "F" -> 15

\* the integer written as the hexadecimal digits ds, most significant first
Hex(ds) ==
    PyNat({i \in PyRange(4 * Len(ds)) :
             (HexDigit(ds[Len(ds) - (i \div 4)]) \div (2 ^ (i % 4))) % 2 = 1})

\* a 64-bit unsigned word: an integer in [0, 2^64)
IsWord(v) == ~v.neg /\ v.d \subseteq PyRange(64)

\* the value a call returned, as a grid of lanes
Returned == Grid(heap, ret.rows)

\* the state the caller holds, as a grid of lanes
Held == Grid(heap, state)

\* Table of round constants of Keccak-f[1600] as published with FIPS 202,
\* RC[0] .. RC[23], in hexadecimal
FIPS202_RC ==
    << <<"0","0","0","0","0","0","0","0","0","0","0","0","0","0","0","1">>,
       <<"0","0","0","0","0","0","0","0","0","0","0","0","8","0","8","2">>,
       <<"8","0","0","0","0","0","0","0","0","0","0","0","8","0","8","A">>,
       <<"8","0","0","0","0","0","0","0","8","0","0","0","8","0","0","0">>,
       <<"0","0","0","0","0","0","0","0","0","0","0","0","8","0","8","B">>,
       <<"0","0","0","0","0","0","0","0","8","0","0","0","0","0","0","1">>,
       <<"8","0","0","0","0","0","0","0","8","0","0","0","8","0","8","1">>,
       <<"8","0","0","0","0","0","0","0","0","0","0","0","8","0","0","9">>,
       <<"0","0","0","0","0","0","0","0","0","0","0","0","0","0","8","A">>,
       <<"0","0","0","0","0","0","0","0","0","0","0","0","0","0","8","8">>,
       <<"0","0","0","0","0","0","0","0","8","0","0","0","8","0","0","9">>,
       <<"0","0","0","0","0","0","0","0","8","0","0","0","0","0","0","A">>,
       <<"0","0","0","0","0","0","0","0","8","0","0","0","8","0","8","B">>,
       <<"8","0","0","0","0","0","0","0","0","0","0","0","0","0","8","B">>,
       <<"8","0","0","0","0","0","0","0","0","0","0","0","8","0","8","9">>,
       <<"8","0","0","0","0","0","0","0","0","0","0","0","8","0","0","3">>,
       <<"8","0","0","0","0","0","0","0","0","0","0","0","8","0","0","2">>,
       <<"8","0","0","0","0","0","0","0","0","0","0","0","0","0","8","0">>,
       <<"0","0","0","0","0","0","0","0","0","0","0","0","8","0","0","A">>,
       <<"8","0","0","0","0","0","0","0","8","0","0","0","0","0","0","A">>,
       <<"8","0","0","0","0","0","0","0","8","0","0","0","8","0","8","1">>,
       <<"8","0","0","0","0","0","0","0","0","0","0","0","8","0","8","0">>,
       <<"0","0","0","0","0","0","0","0","8","0","0","0","0","0","0","1">>,
       <<"8","0","0","0","0","0","0","0","8","0","0","0","8","0","0","8">> >>

\* C1: for every round index 0..23 the constant _get_round_constant returns
\* is the one FIPS 202 publishes for that round.
C1_RoundConstantsMatchFips ==
    (op = "rc" /\ round_index \in 0 .. 23)
        => /\ ret.kind = "int"
           /\ ret.int = Hex(FIPS202_RC[round_index + 1])

C1_Witness ==
    /\ op = "rc"
    /\ round_index = 12
    /\ ret.int = Hex(<<"0","0","0","0","0","0","0","0","8","0","0","0","8","0","8","B">>)

\* C2 as stated: the spot values 0x1, 0x8082 and 0x8000000000008008 for
\* rounds 0, 1 and 23.
C2_SpotValuesAsStated ==
    op = "rc" =>
        /\ round_index = 0 => ret.int = Hex(<<"0","0","0","0","0","0","0","0","0","0","0","0","0","0","0","1">>)
        /\ round_index = 1 => ret.int = Hex(<<"0","0","0","0","0","0","0","0","0","0","0","0","8","0","8","2">>)
        /\ round_index = 23 => ret.int = Hex(<<"8","0","0","0","0","0","0","0","0","0","0","0","8","0","0","8">>)

\* C2 amended: the spot values are 0x1, 0x8082 and, for round 23,
\* 0x8000000080008008 (bit 31 is set as well).
C2_SpotValues ==
    op = "rc" =>
        /\ round_index = 0 => ret.int = Hex(<<"0","0","0","0","0","0","0","0","0","0","0","0","0","0","0","1">>)
        /\ round_index = 1 => ret.int = Hex(<<"0","0","0","0","0","0","0","0","0","0","0","0","8","0","8","2">>)
        /\ round_index = 23 => ret.int = Hex(<<"8","0","0","0","0","0","0","0","8","0","0","0","8","0","0","8">>)

C2_Witness ==
    /\ op = "rc"
    /\ round_index = 23
    /\ ret.kind = "int"
    /\ PyBit(ret.int, 31)

\* the 64-bit word v rotated left by s: bit i moves to bit (i + s) mod 64
Rotl(v, s) == PyNat({(i + s) % 64 : i \in v.d})

\* the rotation table as printed in the specification, row x, column y
SPEC_RHO_TABLE ==
    << << 0,  1, 62, 28, 27>>,
       <<36, 44,  6, 55, 20>>,
       << 3, 10, 43, 25, 39>>,
       <<41, 45, 15, 21,  8>>,
       <<18,  2, 61, 56, 14>> >>

RhoCall == op = "rho" /\ ret.kind = "state" /\ IsState(given)

KECCAK_F_ZERO ==
    << << <<"F","1","2","5","8","F","7","9","4","0","E","1","D","D","E","7">>,
          <<"F","F","9","7","A","4","2","D","7","F","8","E","6","F","D","4">>,
          <<"E","B","5","A","A","9","3","F","2","3","1","7","D","6","3","5">>,
          <<"0","5","E","5","6","3","5","A","2","1","D","9","A","E","6","1">>,
          <<"9","4","0","C","7","9","2","2","A","E","3","A","2","6","1","4">> >>,
       << <<"8","4","D","5","C","C","F","9","3","3","C","0","4","7","8","A">>,
          <<"9","0","F","E","E","5","A","0","A","4","4","6","4","7","C","4">>,
          <<"A","9","A","6","E","6","2","6","0","D","7","1","2","1","0","3">>,
          <<"6","4","B","E","F","E","F","2","8","C","C","9","7","0","F","2">>,
          <<"1","8","4","1","F","9","2","4","A","2","C","5","0","9","E","4">> >>,
       << <<"D","5","9","8","2","6","1","E","A","6","5","A","A","9","E","E">>,
          <<"8","C","5","B","D","A","0","C","D","6","1","9","2","E","7","6">>,
          <<"8","1","A","5","7","C","1","6","D","B","C","F","5","5","5","F">>,
          <<"6","1","3","6","7","0","9","5","7","B","C","4","6","6","1","1">>,
          <<"1","6","F","5","3","5","2","6","E","7","0","4","6","5","C","2">> >>,
       << <<"B","D","1","5","4","7","3","0","6","F","8","0","4","9","4","D">>,
          <<"A","D","3","0","A","6","F","7","1","B","1","9","0","5","9","C">>,
          <<"4","3","B","8","3","1","C","D","0","3","4","7","C","8","2","6">>,
          <<"B","8","7","C","5","A","5","5","4","F","D","0","0","E","C","B">>,
          <<"7","5","F","6","4","4","E","9","7","F","3","0","A","1","3","B">> >>,
       << <<"8","B","2","8","4","E","0","5","6","2","5","3","D","0","5","7">>,
          <<"3","0","9","3","5","A","B","7","D","0","8","F","F","C","6","4">>,
          <<"0","1","F","2","2","F","1","A","1","1","A","5","5","6","9","F">>,
          <<"8","C","3","E","E","8","8","A","1","C","C","F","3","2","C","8">>,
          <<"E","A","F","1","F","F","7","B","5","C","E","C","A","2","4","9">> >> >>

StepOrder == <<"theta", "rho", "pi", "chi", "iota">>

\* C4: permute applies exactly 24 rounds, indices 0..23 ascending, each round
\* theta, rho, pi, chi, iota in that order on the output of the step before; it
\* ends after the 120th step and not earlier (on the all-zero state the result
\* is the known answer of Keccak-f[1600]).
C4_PermuteRounds ==
    (op = "permute" /\ pc # "InvalidStateShape") =>
        /\ Len(log) <= 24 * 5
        /\ \A k \in 1 .. Len(log) :
              log[k] = <<StepOrder[((k - 1) % 5) + 1], (k - 1) \div 5>>
        /\ pc = "done" <=> Len(log) = 24 * 5
        /\ pc # "done" => pc = StepOrder[(Len(log) % 5) + 1] /\ ir = Len(log) \div 5
        /\ (pc = "done" /\ \A x \in 0 .. 4, y \in 0 .. 4 : given[x][y] = PyZero)
              => \A x \in 0 .. 4, y \in 0 .. 4 : A[x][y] = Hex(KECCAK_F_ZERO[x + 1][y + 1])

C4_Witness ==
    /\ op = "permute"
    /\ pc = "done"
    /\ Len(log) = 120
    /\ log[120] = <<"iota", 23>>
    /\ given[0][0] = PyZero
    /\ A[0][0] = Hex(<<"F","1","2","5","8","F","7","9","4","0","E","1","D","D","E","7">>)

\* C5: keccak_iota with a round index outside 0..23 fails with the
\* round-index error (ValueError), returns no state, and leaves the caller's
\* state as it was.
C5_IotaRejectsRoundIndex ==
    (op = "iota" /\ round_index \notin 0 .. 23) =>
        /\ ret.kind = "ValueError"
        /\ DOMAIN ret.rows = {}
        /\ Held = given

C5_Witness ==
    /\ op = "iota"
    /\ round_index = 24
    /\ ret.kind = "ValueError"
    /\ IsState(given)

\* C6: _get_round_constant with a round index outside 0..23 fails with the
\* round-index error instead of returning a value.
C6_LookupRejectsRoundIndex ==
    (op = "rc" /\ round_index \notin 0 .. 23) => ret.kind = "ValueError"

StepOps == {"theta", "rho", "pi", "chi", "iota"}

\* C7: a step given a list that is not 5x5 fails and returns no state (any
\* exception is counted here as the invalid-state-shape failure).
C7_StepsRejectShape ==
    (op \in StepOps /\ ~IsState(given)) =>
        /\ ret.kind \notin {"state", "none", "int"}
        /\ DOMAIN ret.rows = {}

\* the number of positions of the 5x5 grid a that hold lane v
Count(a, v) == Cardinality({s \in (0 .. 4) \X (0 .. 4) : a[s[1]][s[2]] = v})

PiCall == op = "pi" /\ ret.kind = "state" /\ IsState(given)

\* C8: keccak_pi puts input lane (x,y) at output (y, (2x+3y) mod 5); that map
\* is a bijection on the 25 positions, and the output holds the same multiset
\* of lanes as the input.
C8_PiPermutesLanes ==
    PiCall =>
        /\ IsState(Returned)
        /\ \A x \in 0 .. 4, y \in 0 .. 4 :
              Returned[y][(2 * x + 3 * y) % 5] = given[x][y]
        /\ \A i \in 0 .. 4, k \in 0 .. 4 :
              Cardinality({s \in (0 .. 4) \X (0 .. 4) :
                             s[2] = i /\ (2 * s[1] + 3 * s[2]) % 5 = k}) = 1
        /\ \A x \in 0 .. 4, y \in 0 .. 4 :
              Count(Returned, given[x][y]) = Count(given, given[x][y])

C8_Witness ==
    /\ PiCall
    /\ \A x \in 0 .. 4, y \in 0 .. 4 : Count(given, given[x][y]) = 1
    /\ Returned[0][2] = given[1][0]
    /\ Returned # given

\* bitwise exclusive or of two words given as sets of one bits
XorBits(a, b) == (a \ b) \cup (b \ a)

AllWords(a) == \A x \in DOMAIN a : \A y \in DOMAIN a[x] : IsWord(a[x][y])

\* C[x]: bit i is the parity of bit i over the five lanes of column x of the input
ColumnParity(x) ==
    {i \in 0 .. 63 : Cardinality({y \in 0 .. 4 : i \in given[x][y].d}) % 2 = 1}

\* D[x] = C[(x-1) mod 5] XOR rotateLeft64(C[(x+1) mod 5], 1)
ThetaEffect(x) ==
    XorBits(ColumnParity((x - 1) % 5), Rotl(PyNat(ColumnParity((x + 1) % 5)), 1).d)

ThetaCall == op = "theta" /\ ret.kind = "state" /\ IsState(given) /\ AllWords(given)

\* C9: keccak_theta returns lane (x,y) = input lane (x,y) XOR D[x], with the
\* column parities all taken from the input; the all-zero state maps to itself.
C9_Theta ==
    ThetaCall =>
        /\ IsState(Returned)
        /\ \A x \in 0 .. 4, y \in 0 .. 4 :
              Returned[x][y] = PyNat(XorBits(given[x][y].d, ThetaEffect(x)))
        /\ (\A x \in 0 .. 4, y \in 0 .. 4 : given[x][y] = PyZero)
              => \A x \in 0 .. 4, y \in 0 .. 4 : Returned[x][y] = PyZero

C9_Witness ==
    /\ ThetaCall
    /\ \E x \in 0 .. 4 : 63 \in ColumnParity(x) /\ 0 \in ThetaEffect((x - 1) % 5)
    /\ Returned # given

ChiCall == op = "chi" /\ ret.kind = "state" /\ IsState(given) /\ AllWords(given)

\* C10: keccak_chi returns lane (x,y) = A[x][y] XOR (NOT64(A[x+1][y]) AND
\* A[x+2][y]); every output lane is in [0, 2^64); a row of five all-ones lanes
\* is returned unchanged.
C10_Chi ==
    ChiCall =>
        /\ IsState(Returned)
        /\ \A x \in 0 .. 4, y \in 0 .. 4 :
              /\ Returned[x][y] =
                   PyNat(XorBits(given[x][y].d,
                                 ((0 .. 63) \ given[(x + 1) % 5][y].d)
                                    \cap given[(x + 2) % 5][y].d))
              /\ IsWord(Returned[x][y])
        /\ \A y \in 0 .. 4 :
              (\A x \in 0 .. 4 : given[x][y] = Hex(<<"F","F","F","F","F","F","F","F","F","F","F","F","F","F","F","F">>))
                 => \A x \in 0 .. 4 : Returned[x][y] = given[x][y]

C10_Witness ==
    /\ ChiCall
    /\ \E y \in 0 .. 4 : \A x \in 0 .. 4 :
          given[x][y] = Hex(<<"F","F","F","F","F","F","F","F","F","F","F","F","F","F","F","F">>) /\ Returned[x][y] = given[x][y]
    /\ \E x \in 0 .. 4, y \in 0 .. 4 :
          63 \in Returned[x][y].d /\ 63 \notin given[x][y].d

IotaCall ==
    /\ op = "iota"
    /\ round_index \in 0 .. 23
    /\ IsState(given)
    /\ AllWords(given)

\* C11: for a round index in 0..23 keccak_iota returns a state whose lane
\* (0,0) is input lane (0,0) XOR the round constant of that round, and whose
\* other 24 lanes are the input lanes at the same positions.
C11_IotaFrame ==
    IotaCall =>
        /\ ret.kind = "state"
        /\ IsState(Returned)
        /\ Returned[0][0] =
              PyNat(XorBits(given[0][0].d, Hex(FIPS202_RC[round_index + 1]).d))
        /\ \A x \in 0 .. 4, y \in 0 .. 4 :
              (x # 0 \/ y # 0) => Returned[x][y] = given[x][y]

C11_Witness ==
    /\ IotaCall
    /\ round_index = 1
    /\ given[0][0] = Hex(<<"A","A","A","A","A","A","A","A","A","A","A","A","A","A","A","A">>)
    /\ Returned[0][0] = Hex(<<"A","A","A","A","A","A","A","A","A","A","A","A","2","A","2","8">>)
    /\ Returned[1][0] = PyZero

Rotl64Call == op = "rotl64" /\ IsWord(arg_value) /\ ret.kind = "int"

\* C12: for a value in [0, 2^64) and a shift s >= 0, rotl64 returns a value in
\* [0, 2^64) whose bit (i + s) mod 64 is bit i of the value; a shift that is a
\* multiple of 64 returns the value, 0x1 by 1 gives 0x2 and 0x1 by 63 gives
\* 0x8000000000000000.
C12_Rotl64 ==
    Rotl64Call =>
        /\ IsWord(ret.int)
        /\ \A i \in 0 .. 63 : (i \in arg_value.d) <=> (((i + arg_shift) % 64) \in ret.int.d)
        /\ arg_shift % 64 = 0 => ret.int = arg_value
        /\ (arg_value = PyOne /\ arg_shift = 1) => ret.int = Hex(<<"2">>)
        /\ (arg_value = PyOne /\ arg_shift = 63) => ret.int = Hex(<<"8","0","0","0","0","0","0","0","0","0","0","0","0","0","0","0">>)

C12_Witness ==
    /\ Rotl64Call
    /\ arg_value = Hex(<<"8","0","0","0","0","0","0","0","0","0","0","0","0","0","0","1">>)
    /\ arg_shift = 64 + 1
    /\ ret.int = Hex(<<"3">>)

\* C13: a step leaves the state it is given as it was and returns rows of its
\* own: after any number of step calls on the state the caller holds, that
\* state still has the lane values it had at first, and no row of the result
\* is a row of the input.
C13_StepsArePure ==
    op \in StepOps =>
        /\ Held = given
        /\ ret.kind = "state" =>
              /\ \A x \in DOMAIN ret.rows : \A z \in DOMAIN state : ret.rows[x] # state[z]
              /\ \A x \in DOMAIN ret.rows : \A z \in DOMAIN ret.rows :
                    ret.rows[x] = ret.rows[z] => x = z

\* keccak_iota on the all-zero state for round 23, after earlier calls on it
C13_Witness ==
    /\ op = "iota" /\ round_index = 23 /\ calls >= 3
    /\ IsState(given)
    /\ \A x \in PyRange(5), y \in PyRange(5) : given[x][y] = PyZero
    /\ ret.kind = "state"
    /\ Returned[0][0] = Hex(FIPS202_RC[24])
    /\ Held = given

=============================================================================
